---- MODULE Spec2Model ----
(***************************************************************************)
(* Product dashboard (src/main.js): the client-side pipeline               *)
(*   products -> SearchFilter.filter -> SortController.applySorting        *)
(*            -> PaginationController.getPagedData -> currentPageProducts  *)
(* and the DashboardController that re-runs it on UI events.               *)
(*                                                                         *)
(* JavaScript values are modelled as follows.                              *)
(*   string      a sequence of one-character strings, "" is << >>          *)
(*   undefined / null (as an argument)   the tuples Undefined, Null        *)
(*   number      an integer; where NaN can occur (parseInt), a record      *)
(*               [nan |-> TRUE] or [nan |-> FALSE, value |-> n]            *)
(*   object      a record; a missing property is a field that is not in    *)
(*               the record's DOMAIN                                       *)
(*   array       a sequence                                                *)
(*   element     its style.display and innerHTML as plain TLA+ strings:    *)
(*               the code only assigns them, it never looks inside         *)
(***************************************************************************)
EXTENDS Integers, Sequences, FiniteSets, TLC

VARIABLES
    products,             \* DashboardController.products
    filteredProducts,     \* DashboardController.filteredProducts
    currentPageProducts,  \* DashboardController.currentPageProducts
    searchTerm,           \* SearchFilter.searchTerm
    currentSort,          \* SortController.currentSort
    currentPage,          \* PaginationController.currentPage
    pageSize,             \* PaginationController.pageSize
    totalItems,           \* PaginationController.totalItems
    totalPages,           \* PaginationController.totalPages
    fetchState,           \* where DashboardController.init stands
    requests,             \* how many times fetch() has been called
    thrown,               \* the error getAllProducts() threw, NoError if none
    dom,                  \* the elements of the page the code writes to
    calls,                \* the methods and callbacks the last handler ran
    pageBefore,           \* currentPage when the last handler started
    input,                \* the collection a direct call is applied to
    call                  \* the last direct call of a pipeline function

vars ==
    <<products, filteredProducts, currentPageProducts, searchTerm, currentSort,
      currentPage, pageSize, totalItems, totalPages, fetchState, requests,
      thrown, dom, calls, pageBefore, input, call>>

controllerVars ==
    <<products, filteredProducts, currentPageProducts, searchTerm, currentSort,
      fetchState, requests, thrown, dom, calls, pageBefore>>

(***************************************************************************)
(* Bounds of the model.                                                    *)
(***************************************************************************)
\* longest collection in which every combination of product kinds occurs
MaxLen == 3
\* longest fetched catalog (3 pages of 5, 2 pages of 10, 1 page of 20)
MaxProducts == 11
\* largest page number handed to goToPage
MaxPageInput == 4
\* largest totalPages renderPageNumbers is called with: from 9 pages on, a
\* window of 5 can leave a gap on both sides
MaxPages == 9

(***************************************************************************)
(* Strings.                                                                *)
(***************************************************************************)
Undefined == <<"undefined">>
Null == <<"null">>

Min(a, b) == IF a < b THEN a ELSE b
Max(a, b) == IF a > b THEN a ELSE b

\* String.prototype.toLowerCase on the model's alphabet
LowerChar(c) ==
    CASE c = "A" -> "a"
      [] c = "B" -> "b"
      [] OTHER -> c

toLowerCase(s) == [i \in 1..Len(s) |-> LowerChar(s[i])]

\* String.prototype.includes
includes(s, t) ==
    \E i \in 0..(Len(s) - Len(t)) : SubSeq(s, i + 1, i + Len(t)) = t

IsSpace(c) == c = " "

RECURSIVE TrimStart(_)
TrimStart(s) ==
    IF s # << >> /\ IsSpace(Head(s)) THEN TrimStart(Tail(s)) ELSE s

RECURSIVE TrimEnd(_)
TrimEnd(s) ==
    IF s # << >> /\ IsSpace(s[Len(s)]) THEN TrimEnd(SubSeq(s, 1, Len(s) - 1)) ELSE s

\* String.prototype.trim
trim(s) == TrimEnd(TrimStart(s))

\* collation rank of a letter, case ignored (primary strength)
PrimaryRank(c) ==
    CASE c = " " -> 0
      [] LowerChar(c) = "a" -> 1
      [] LowerChar(c) = "b" -> 2
      [] OTHER -> 3

\* lower case sorts before upper case when the letters are the same
TertiaryRank(c) == IF LowerChar(c) = c THEN 0 ELSE 1

RECURSIVE CompareRanks(_, _, _)
CompareRanks(s, t, primary) ==
    IF s = << >> /\ t = << >> THEN 0
    ELSE IF s = << >> THEN -1
    ELSE IF t = << >> THEN 1
    ELSE LET a == IF primary THEN PrimaryRank(Head(s)) ELSE TertiaryRank(Head(s))
             b == IF primary THEN PrimaryRank(Head(t)) ELSE TertiaryRank(Head(t))
         IN  IF a < b THEN -1
             ELSE IF a > b THEN 1
             ELSE CompareRanks(Tail(s), Tail(t), primary)

\* String.prototype.localeCompare: letters first, case as the tie-break
localeCompare(s, t) ==
    LET p == CompareRanks(s, t, TRUE)
    IN  IF p # 0 THEN p ELSE CompareRanks(s, t, FALSE)

(***************************************************************************)
(* Numbers read from the page-size select.                                 *)
(***************************************************************************)
NaN == [nan |-> TRUE]
Num(n) == [nan |-> FALSE, value |-> n]

Digits == <<"0", "1", "2", "3", "4", "5", "6", "7", "8", "9">>
IsDigit(c) == \E d \in 1..Len(Digits) : Digits[d] = c
DigitValue(c) == (CHOOSE d \in 1..Len(Digits) : Digits[d] = c) - 1

RECURSIVE ParseDigits(_, _)
ParseDigits(s, acc) ==
    IF s # << >> /\ IsDigit(Head(s))
    THEN ParseDigits(Tail(s), acc * 10 + DigitValue(Head(s)))
    ELSE acc

\* parseInt(string): leading white space skipped, an optional sign, then the
\* longest run of digits; NaN when there is no digit
parseInt(str) ==
    LET s == TrimStart(str)
        signed == s # << >> /\ Head(s) \in {"-", "+"}
        body == IF signed THEN Tail(s) ELSE s
    IN  IF body = << >> \/ ~IsDigit(Head(body)) THEN NaN
        ELSE IF signed /\ Head(s) = "-" THEN Num(0 - ParseDigits(body, 0))
        ELSE Num(ParseDigits(body, 0))

(***************************************************************************)
(* APIService: the errors getAllProducts() throws, and the message         *)
(* handleError() chooses for each.                                         *)
(***************************************************************************)
\* "Failed to fetch": the message of the TypeError a Chromium fetch() rejects
\* with when the network is unavailable
FailedToFetch ==
    <<"F", "a", "i", "l", "e", "d", " ", "t", "o", " ", "f", "e", "t", "c",
      "h">>

\* "Load failed": the message of the same TypeError in WebKit
LoadFailed ==
    <<"L", "o", "a", "d", " ", "f", "a", "i", "l", "e", "d">>

\* "HTTP error! status: ", the text before ${response.status}
HttpErrorText ==
    <<"H", "T", "T", "P", " ", "e", "r", "r", "o", "r", "!", " ", "s", "t",
      "a", "t", "u", "s", ":", " ">>

\* 'Invalid data format received from API'
InvalidDataFormatText ==
    <<"I", "n", "v", "a", "l", "i", "d", " ", "d", "a", "t", "a", " ", "f",
      "o", "r", "m", "a", "t", " ", "r", "e", "c", "e", "i", "v", "e", "d",
      " ", "f", "r", "o", "m", " ", "A", "P", "I">>

\* "Unexpected token < in JSON at position 0": the message of the SyntaxError
\* response.json() rejects with when the body is not JSON
UnexpectedTokenText ==
    <<"U", "n", "e", "x", "p", "e", "c", "t", "e", "d", " ", "t", "o", "k",
      "e", "n", " ", "<", " ", "i", "n", " ", "J", "S", "O", "N", " ", "a",
      "t", " ", "p", "o", "s", "i", "t", "i", "o", "n", " ", "0">>

\* the substrings handleError() looks for
FetchNeedle == <<"f", "e", "t", "c", "h">>
HttpErrorNeedle == <<"H", "T", "T", "P", " ", "e", "r", "r", "o", "r">>
InvalidDataFormatNeedle == <<"I", "n", "v", "a", "l", "i", "d", " ", "d", "a", "t", "a", " ", "f", "o",
  "r", "m", "a", "t">>
StatusNeedle == <<"s", "t", "a", "t", "u", "s", ":", " ">>

\* String(n) for n >= 0, as the template literal formats response.status
RECURSIVE NumberToString(_)
NumberToString(n) ==
    IF n < 10 THEN <<Digits[n + 1]>>
    ELSE NumberToString(n \div 10) \o <<Digits[(n % 10) + 1]>>

\* the statuses for which response.ok is false
HttpStatuses == {300, 400, 404, 499, 500, 503}

NoError == [name |-> "none"]

\* new Error(`HTTP error! status: ${response.status}`)
HttpError(status) ==
    [name |-> "Error", message |-> HttpErrorText \o NumberToString(status)]

\* every error getAllProducts() can catch: fetch() rejected, response.ok was
\* false, response.json() rejected, or the body was not an array
Failures ==
    { [name |-> "TypeError", message |-> FailedToFetch],
      [name |-> "TypeError", message |-> LoadFailed],
      [name |-> "SyntaxError", message |-> UnexpectedTokenText],
      [name |-> "Error", message |-> InvalidDataFormatText] }
    \cup { HttpError(status) : status \in HttpStatuses }

\* error.message.match(/status: (\d+)/)?.[1] as the number that >= compares:
\* the digits after the first "status: " that a digit follows, NaN without one
MatchStatus(message) ==
    LET n == Len(StatusNeedle)
        starts == { i \in 1..Len(message) :
                      /\ i + n <= Len(message)
                      /\ SubSeq(message, i, i + n - 1) = StatusNeedle
                      /\ IsDigit(message[i + n]) }
    IN  IF starts = {} THEN NaN
        ELSE LET first == CHOOSE i \in starts : \A j \in starts : i <= j
             IN  Num(ParseDigits(SubSeq(message, first + n, Len(message)), 0))

\* x >= n where x may be NaN
AtLeast(x, n) == ~x.nan /\ x.value >= n

\* handleError as it would be with the 400 test before the 500 test
handleErrorClientFirst(error) ==
    IF error.name = "TypeError" /\ includes(error.message, FetchNeedle)
    THEN "network"
    ELSE IF includes(error.message, HttpErrorNeedle)
    THEN LET status == MatchStatus(error.message)
         IN  IF AtLeast(status, 400) THEN "client"
             ELSE IF AtLeast(status, 500) THEN "server"
             ELSE "default"
    ELSE IF includes(error.message, InvalidDataFormatNeedle) THEN "invalid-data"
    ELSE IF error.name = "AbortError" THEN "timeout"
    ELSE "default"

\* the message handleError(error) hands to displayError, by name:
\*   "default"       'Da xay ra loi khi tai du lieu san pham'
\*   "network"       'Khong the ket noi den server. ...'
\*   "server"        'Loi server. Vui long thu lai sau.'
\*   "client"        'Yeu cau khong hop le. Vui long thu lai.'
\*   "invalid-data"  'Du lieu nhan duoc khong hop le.'
\*   "timeout"       'Yeu cau da bi huy do timeout.'
handleError(error) ==
    IF error.name = "TypeError" /\ includes(error.message, FetchNeedle)
    THEN "network"
    ELSE IF includes(error.message, HttpErrorNeedle)
    THEN LET status == MatchStatus(error.message)
         IN  IF AtLeast(status, 500) THEN "server"
             ELSE IF AtLeast(status, 400) THEN "client"
             ELSE "default"
    ELSE IF includes(error.message, InvalidDataFormatNeedle) THEN "invalid-data"
    ELSE IF error.name = "AbortError" THEN "timeout"
    ELSE "default"

\* displayError(message) on the page d
displayError(d, message) == [d EXCEPT !.errorContainer = message]

\* clearError() on the page d
clearError(d) == [d EXCEPT !.errorContainer = ""]

(***************************************************************************)
(* TableRenderer: what it does to the page d.                              *)
(***************************************************************************)
\* the page before any script has touched it: nothing styled by script, the
\* loading container holding the loading indicator, no error shown
InitialPage ==
    [table |-> "", noResults |-> "", paginationContainer |-> "",
     paginationInfo |-> [text |-> ""], paginationControls |-> << >>,
     loadingContainer |-> [display |-> "", innerHTML |-> "loading-indicator"],
     errorContainer |-> ""]

renderTable(d, prods) ==
    LET hidden == [d EXCEPT !.loadingContainer.display = "none",
                            !.noResults = "none"]
    IN  IF prods = << >>
        THEN [hidden EXCEPT !.table = "none", !.noResults = "block"]
        ELSE [hidden EXCEPT !.table = "table"]

showLoading(d) ==
    [d EXCEPT !.table = "none", !.noResults = "none",
              !.loadingContainer.display = "block"]

showError(d, message) ==
    [d EXCEPT !.table = "none", !.noResults = "none",
              !.loadingContainer = [display |-> "block", innerHTML |-> message]]

(***************************************************************************)
(* Products and the collections the pipeline is run on.                    *)
(***************************************************************************)
\* the shapes of product the API can return: title and price are optional
Kinds ==
    << [hasTitle |-> FALSE, title |-> << >>,         hasPrice |-> FALSE, price |-> 0],
       [hasTitle |-> TRUE,  title |-> <<"a", "b">>,  hasPrice |-> TRUE,  price |-> 1],
       [hasTitle |-> TRUE,  title |-> <<"A", "b">>,  hasPrice |-> TRUE,  price |-> 0],
       [hasTitle |-> TRUE,  title |-> <<"b">>,       hasPrice |-> TRUE,  price |-> 2],
       [hasTitle |-> TRUE,  title |-> << >>,         hasPrice |-> TRUE,  price |-> 1],
       [hasTitle |-> TRUE,  title |-> <<"B", "a">>,  hasPrice |-> FALSE, price |-> 0] >>

\* the product object of kind k with the given id
Product(id, k) ==
    LET kind == Kinds[k]
    IN  IF kind.hasTitle /\ kind.hasPrice
        THEN [id |-> id, title |-> kind.title, price |-> kind.price]
        ELSE IF kind.hasTitle THEN [id |-> id, title |-> kind.title]
        ELSE IF kind.hasPrice THEN [id |-> id, price |-> kind.price]
        ELSE [id |-> id]

\* every collection of at most MaxLen products, ids in fetched order
ShortCollections ==
    UNION { { [i \in 1..n |-> Product(i, ks[i])] : ks \in [1..n -> 1..Len(Kinds)] }
            : n \in 0..MaxLen }

\* a catalog of n products whose kinds cycle with the given stride
Catalog(n, stride) ==
    [i \in 1..n |-> Product(i, ((i * stride) % Len(Kinds)) + 1)]

Catalogs == { Catalog(n, stride) : n \in 0..MaxProducts, stride \in {1, 5} }

Collections == ShortCollections \cup Catalogs

\* what the user can type into the search box
SearchTexts ==
    { << >>, <<" ">>, <<"a">>, <<" ", "B">>, <<"a", "B", " ">>, <<"b", "b">> }

\* the term argument of a direct call of filter
TermArgs == SearchTexts \cup { trim(text) : text \in SearchTexts } \cup {Undefined, Null}

\* the values the page-size select can carry
SelectValues ==
    { <<"5">>, <<"1", "0">>, <<"2", "0">>, <<"7">>, <<"0">>, <<"-", "5">>,
      <<"5", "x">>, <<"x">>, << >> }

Directions == {"asc", "desc"}

\* what a caller can hand over in place of an array: undefined, null, and an
\* object that is not an array
NotArrays ==
    { <<[notArray |-> "undefined"]>>, <<[notArray |-> "null"]>>,
      <<[notArray |-> "object"]>> }

\* !(!products || !Array.isArray(products))
IsArray(prods) == prods \notin NotArrays

(***************************************************************************)
(* SearchFilter.filter                                                     *)
(***************************************************************************)
\* !product.title : the title is missing or the empty string
NoTitle(product) == "title" \notin DOMAIN product \/ product.title = << >>

\* the callback as it would be without toLowerCase() on the title
TitleMatchesCaseSensitive(product, searchTermLower) ==
    IF NoTitle(product) THEN FALSE
    ELSE includes(product.title, searchTermLower)

\* the callback of products.filter(...)
TitleMatches(product, searchTermLower) ==
    IF NoTitle(product) THEN FALSE
    ELSE includes(toLowerCase(product.title), searchTermLower)

\* filter as it would be with the stored term as the fallback of an empty one
filterFallsBack(prods, termArg, thisSearchTerm) ==
    LET term == IF termArg \in {Undefined, Null, << >>} THEN thisSearchTerm ELSE termArg
    IN  IF Len(term) = 0 THEN prods
        ELSE SelectSeq(prods, LAMBDA product : TitleMatches(product, toLowerCase(term)))

\* filter(products, term = this.searchTerm)
filter(prods, termArg, thisSearchTerm) ==
    LET term == IF termArg = Undefined THEN thisSearchTerm ELSE termArg
    IN  IF ~IsArray(prods) THEN << >>
        ELSE IF term = Null \/ term = Undefined \/ Len(term) = 0 THEN prods
        ELSE SelectSeq(prods, LAMBDA product : TitleMatches(product, toLowerCase(term)))

(***************************************************************************)
(* SortController                                                          *)
(***************************************************************************)
\* a.price || 0
PriceOrZero(a) == IF "price" \in DOMAIN a /\ a.price # 0 THEN a.price ELSE 0

\* (a.title || '').toLowerCase()
TitleOrEmptyLower(a) == IF NoTitle(a) THEN << >> ELSE toLowerCase(a.title)

\* the comparator as it would be if it ignored the direction
ComparePriceAscending(a, b, direction) == PriceOrZero(a) - PriceOrZero(b)

\* the comparator of sortByPrice
ComparePrice(a, b, direction) ==
    IF direction = "asc" THEN PriceOrZero(a) - PriceOrZero(b)
    ELSE PriceOrZero(b) - PriceOrZero(a)

\* the comparator of sortByName
CompareName(a, b, direction) ==
    IF direction = "asc" THEN localeCompare(TitleOrEmptyLower(a), TitleOrEmptyLower(b))
    ELSE localeCompare(TitleOrEmptyLower(b), TitleOrEmptyLower(a))

Compare(field, a, b, direction) ==
    IF field = "price" THEN ComparePrice(a, b, direction)
    ELSE CompareName(a, b, direction)

\* one step of a stable sort: x goes behind every element that does not
\* compare greater than it
InsertSorted(sorted, x, field, direction) ==
    LET k == Cardinality({ j \in 1..Len(sorted) :
                             Compare(field, sorted[j], x, direction) <= 0 })
    IN  SubSeq(sorted, 1, k) \o <<x>> \o SubSeq(sorted, k + 1, Len(sorted))

\* [...array].sort(comparator): Array.prototype.sort is stable
RECURSIVE ArraySort(_, _, _)
ArraySort(array, field, direction) ==
    IF array = << >> THEN << >>
    ELSE InsertSorted(ArraySort(SubSeq(array, 1, Len(array) - 1), field, direction),
                      array[Len(array)], field, direction)

\* the array handed to sortByPrice or sortByName, as it would be after the
\* call if the sort ran on the array itself
inputAfterSortInPlace(prods, field, direction) ==
    IF ~IsArray(prods) THEN prods ELSE ArraySort(prods, field, direction)

\* the array handed to sortByPrice or sortByName, after the call: sort() runs
\* on the copy [...products]
inputAfterSort(prods, field, direction) == prods

sortByPrice(prods, direction) ==
    IF ~IsArray(prods) THEN << >> ELSE ArraySort(prods, "price", direction)

\* sortByName as it would be if desc reversed the ascending result
sortByNameReversing(prods, direction) ==
    LET ascending == ArraySort(prods, "title", "asc")
    IN  IF direction = "asc" THEN ascending
        ELSE [i \in 1..Len(ascending) |-> ascending[Len(ascending) + 1 - i]]

sortByName(prods, direction) ==
    IF ~IsArray(prods) THEN << >> ELSE ArraySort(prods, "title", direction)

\* applySorting as it would be if no sort field meant the order of the prices
applySortingByPriceFirst(prods, sort) ==
    IF sort.field = "null" THEN sortByPrice(prods, "asc")
    ELSE IF sort.field = "price" THEN sortByPrice(prods, sort.direction)
    ELSE IF sort.field = "title" THEN sortByName(prods, sort.direction)
    ELSE prods

\* applySorting(products) under this.currentSort
applySorting(prods, sort) ==
    IF sort.field = "null" THEN prods
    ELSE IF sort.field = "price" THEN sortByPrice(prods, sort.direction)
    ELSE IF sort.field = "title" THEN sortByName(prods, sort.direction)
    ELSE prods

\* currentSort after toggleSort(field) as it would be if a new field kept the
\* direction of the old one
ToggledSortKeepsDirection(sort, field) ==
    IF sort.field = field
    THEN [field |-> field,
          direction |-> IF sort.direction = "asc" THEN "desc" ELSE "asc"]
    ELSE [field |-> field, direction |-> sort.direction]

\* currentSort after toggleSort(field)
ToggledSort(sort, field) ==
    IF sort.field = field
    THEN [field |-> field,
          direction |-> IF sort.direction = "asc" THEN "desc" ELSE "asc"]
    ELSE [field |-> field, direction |-> "asc"]

(***************************************************************************)
(* PaginationController                                                    *)
(***************************************************************************)
DefaultPageSize == 10

ValidSizes == {Num(5), Num(10), Num(20)}

\* Math.ceil(a / b) for a >= 0, b > 0
Ceil(a, b) == IF a % b = 0 THEN a \div b ELSE (a \div b) + 1

\* Array.prototype.slice(start, end) for 0 <= start <= end
slice(data, start, end) ==
    SubSeq(data, Min(start, Len(data)) + 1, Min(end, Len(data)))

\* getPagedData as it would be with Math.floor in place of Math.ceil
getPagedDataFloor(data, thisCurrentPage, thisPageSize) ==
    LET items == Len(data)
        pages == items \div thisPageSize
        page1 == IF thisCurrentPage > pages /\ pages > 0 THEN pages ELSE thisCurrentPage
        page2 == IF page1 < 1 THEN 1 ELSE page1
        startIndex == (page2 - 1) * thisPageSize
        endIndex == startIndex + thisPageSize
    IN  [totalItems |-> items, totalPages |-> pages, currentPage |-> page2,
         returned |-> slice(data, startIndex, endIndex)]

\* getPagedData as it would be if it sliced at the page it found and clamped
\* currentPage afterwards
getPagedDataSliceFirst(data, thisCurrentPage, thisPageSize) ==
    LET items == Len(data)
        pages == Ceil(items, thisPageSize)
        page1 == IF thisCurrentPage > pages /\ pages > 0 THEN pages ELSE thisCurrentPage
        page2 == IF page1 < 1 THEN 1 ELSE page1
        startIndex == (Max(thisCurrentPage, 1) - 1) * thisPageSize
        endIndex == startIndex + thisPageSize
    IN  [totalItems |-> items, totalPages |-> pages, currentPage |-> page2,
         returned |-> slice(data, startIndex, endIndex)]

\* getPagedData as it would be without the clamp to the last page
getPagedDataUnclamped(data, thisCurrentPage, thisPageSize) ==
    LET items == Len(data)
        pages == Ceil(items, thisPageSize)
        page2 == IF thisCurrentPage < 1 THEN 1 ELSE thisCurrentPage
        startIndex == (page2 - 1) * thisPageSize
        endIndex == startIndex + thisPageSize
    IN  [totalItems |-> items, totalPages |-> pages, currentPage |-> page2,
         returned |-> slice(data, startIndex, endIndex)]

\* getPagedData(data) with this.currentPage and this.pageSize: the fields it
\* assigns and the slice it returns; it assigns nothing when data is no array
getPagedData(data, thisCurrentPage, thisPageSize) ==
    LET items == Len(data)
        pages == Ceil(items, thisPageSize)
        page1 == IF thisCurrentPage > pages /\ pages > 0 THEN pages ELSE thisCurrentPage
        page2 == IF page1 < 1 THEN 1 ELSE page1
        startIndex == (page2 - 1) * thisPageSize
        endIndex == startIndex + thisPageSize
    IN  IF ~IsArray(data) THEN [returned |-> << >>]
        ELSE [totalItems |-> items, totalPages |-> pages, currentPage |-> page2,
              returned |-> slice(data, startIndex, endIndex)]

\* the value of the field name after getPagedData: the one it assigned, or old
FieldAfter(paged, name, old) ==
    IF name \in DOMAIN paged THEN paged[name] ELSE old

MaxVisiblePages == 5

\* the children renderPageNumbers and createPageButton append: a button for
\* a page, active when it is the current page, or the span "..."
PageButton(pageNumber, thisCurrentPage) ==
    [kind |-> "page", page |-> pageNumber, active |-> pageNumber = thisCurrentPage]

Ellipsis == [kind |-> "ellipsis"]

\* renderPageNumbers as it would be with an ellipsis after every first page
renderPageNumbersEllipsisAlways(thisCurrentPage, thisTotalPages) ==
    LET start1 == Max(1, thisCurrentPage - (MaxVisiblePages \div 2))
        endPage == Min(thisTotalPages, start1 + MaxVisiblePages - 1)
        startPage == IF endPage - start1 + 1 < MaxVisiblePages
                     THEN Max(1, endPage - MaxVisiblePages + 1)
                     ELSE start1
        first == IF startPage > 1
                 THEN <<PageButton(1, thisCurrentPage)>>
                      \o (IF startPage >= 2 THEN <<Ellipsis>> ELSE << >>)
                 ELSE << >>
        window == [i \in 1..(endPage - startPage + 1) |->
                     PageButton(startPage + i - 1, thisCurrentPage)]
        last == IF endPage < thisTotalPages
                THEN (IF endPage < thisTotalPages - 1 THEN <<Ellipsis>> ELSE << >>)
                     \o <<PageButton(thisTotalPages, thisCurrentPage)>>
                ELSE << >>
    IN  first \o window \o last

\* renderPageNumbers() with this.currentPage and this.totalPages: the
\* children it appends, in order
renderPageNumbers(thisCurrentPage, thisTotalPages) ==
    LET start1 == Max(1, thisCurrentPage - (MaxVisiblePages \div 2))
        endPage == Min(thisTotalPages, start1 + MaxVisiblePages - 1)
        startPage == IF endPage - start1 + 1 < MaxVisiblePages
                     THEN Max(1, endPage - MaxVisiblePages + 1)
                     ELSE start1
        first == IF startPage > 1
                 THEN <<PageButton(1, thisCurrentPage)>>
                      \o (IF startPage > 2 THEN <<Ellipsis>> ELSE << >>)
                 ELSE << >>
        window == [i \in 1..(endPage - startPage + 1) |->
                     PageButton(startPage + i - 1, thisCurrentPage)]
        last == IF endPage < thisTotalPages
                THEN (IF endPage < thisTotalPages - 1 THEN <<Ellipsis>> ELSE << >>)
                     \o <<PageButton(thisTotalPages, thisCurrentPage)>>
                ELSE << >>
    IN  first \o window \o last

\* the text renderControls gives the pagination info, by its numbers
InfoText(thisCurrentPage, thisPageSize, thisTotalItems, thisTotalPages) ==
    [startItem |-> (thisCurrentPage - 1) * thisPageSize + 1,
     endItem |-> Min(thisCurrentPage * thisPageSize, thisTotalItems),
     totalItems |-> thisTotalItems,
     currentPage |-> thisCurrentPage,
     totalPages |-> thisTotalPages]

\* renderControls as it would be if a single page still showed the controls
renderControlsFromOnePage(d, thisCurrentPage, thisPageSize, thisTotalItems, thisTotalPages) ==
    IF thisTotalItems = 0 \/ thisTotalPages < 1
    THEN [d EXCEPT !.paginationContainer = "none"]
    ELSE [d EXCEPT
            !.paginationContainer = "flex",
            !.paginationInfo = InfoText(thisCurrentPage, thisPageSize,
                                        thisTotalItems, thisTotalPages),
            !.paginationControls =
                <<[kind |-> "previous", disabled |-> thisCurrentPage = 1]>>
                \o renderPageNumbers(thisCurrentPage, thisTotalPages)
                \o <<[kind |-> "next", disabled |-> thisCurrentPage = thisTotalPages]>>]

\* renderControls as it would be if Next were disabled from the page before
\* the last
renderControlsNextOffByOne(d, thisCurrentPage, thisPageSize, thisTotalItems, thisTotalPages) ==
    IF thisTotalItems = 0 \/ thisTotalPages <= 1
    THEN [d EXCEPT !.paginationContainer = "none"]
    ELSE [d EXCEPT
            !.paginationContainer = "flex",
            !.paginationInfo = InfoText(thisCurrentPage, thisPageSize,
                                        thisTotalItems, thisTotalPages),
            !.paginationControls =
                <<[kind |-> "previous", disabled |-> thisCurrentPage = 1]>>
                \o renderPageNumbers(thisCurrentPage, thisTotalPages)
                \o <<[kind |-> "next",
                      disabled |-> thisCurrentPage >= thisTotalPages - 1]>>]

\* renderControls() on the page d: it hides the pagination container and
\* leaves what is in it, or displays it with the info text, the Previous
\* button, the page numbers and the Next button
renderControls(d, thisCurrentPage, thisPageSize, thisTotalItems, thisTotalPages) ==
    IF thisTotalItems = 0 \/ thisTotalPages <= 1
    THEN [d EXCEPT !.paginationContainer = "none"]
    ELSE [d EXCEPT
            !.paginationContainer = "flex",
            !.paginationInfo = InfoText(thisCurrentPage, thisPageSize,
                                        thisTotalItems, thisTotalPages),
            !.paginationControls =
                <<[kind |-> "previous", disabled |-> thisCurrentPage = 1]>>
                \o renderPageNumbers(thisCurrentPage, thisTotalPages)
                \o <<[kind |-> "next", disabled |-> thisCurrentPage = thisTotalPages]>>]

(***************************************************************************)
(* DashboardController: the state after construction and the handlers.     *)
(***************************************************************************)
NoCall == [op |-> "none"]

Init ==
    /\ products = << >>
    /\ filteredProducts = << >>
    /\ currentPageProducts = << >>
    /\ searchTerm = << >>
    /\ currentSort = [field |-> "null", direction |-> "asc"]
    /\ currentPage = 1
    /\ pageSize = DefaultPageSize
    /\ totalItems = 0
    /\ totalPages = 0
    /\ fetchState = "constructed"
    /\ requests = 0
    /\ thrown = NoError
    /\ dom = InitialPage
    /\ calls = << >>
    /\ pageBefore = 1
    /\ input = << >>
    /\ call = NoCall

\* updateDisplay() on the stored collection fp, from page cp and page size ps
updateDisplay(fp, cp, ps) ==
    LET paged == getPagedData(fp, cp, ps)
    IN  /\ currentPageProducts' = paged.returned
        /\ totalItems' = FieldAfter(paged, "totalItems", totalItems)
        /\ totalPages' = FieldAfter(paged, "totalPages", totalPages)
        /\ currentPage' = FieldAfter(paged, "currentPage", cp)
        /\ dom' = renderControls(renderTable(dom, paged.returned), currentPage',
                                 ps, totalItems', totalPages')

\* the collection applyFilters() stores
FilteredAndSorted(prods, term, sort) ==
    LET all == prods
        searched == IF term # << >> THEN filter(all, term, term) ELSE all
    IN  applySorting(searched, sort)

\* applyFilters() with the given products, term, sort, page and page size; it
\* works on the copy [...this.products], which leaves this.products as it was
applyFilters(prods, term, sort, cp, ps) ==
    /\ products' = prods
    /\ filteredProducts' = FilteredAndSorted(prods, term, sort)
    /\ updateDisplay(filteredProducts', cp, ps)

\* DOMContentLoaded: init() runs up to the await of the fetch
init ==
    /\ fetchState = "constructed"
    /\ pageBefore' = currentPage
    /\ fetchState' = "pending"
    /\ requests' = requests + 1
    /\ dom' = showLoading(clearError(dom))
    /\ calls' = <<"init", "clearError", "showLoading", "getAllProducts">>
    /\ UNCHANGED <<products, filteredProducts, currentPageProducts, searchTerm,
                   currentSort, currentPage, pageSize, totalItems, totalPages,
                   thrown, input, call>>

\* the fetch resolves with an array: init() stores it and applies the filters
FetchResolved(catalog) ==
    /\ fetchState = "pending"
    /\ pageBefore' = currentPage
    /\ fetchState' = "loaded"
    /\ applyFilters(catalog, searchTerm, currentSort, currentPage, pageSize)
    /\ calls' = <<"init", "applyFilters", "updateDisplay">>
    /\ UNCHANGED <<searchTerm, currentSort, pageSize, requests, thrown, input, call>>

\* the fetch fails with the given error: getAllProducts() hands it to
\* handleError and rethrows it, and the catch of init() shows its own message
FetchRejected(error) ==
    /\ fetchState = "pending"
    /\ pageBefore' = currentPage
    /\ fetchState' = "failed"
    /\ thrown' = error
    /\ dom' = showError(displayError(dom, handleError(error)), "cannot-load")
    /\ calls' = <<"init", "handleError", "displayError", "showError">>
    /\ UNCHANGED <<products, filteredProducts, currentPageProducts, searchTerm,
                   currentSort, currentPage, pageSize, totalItems, totalPages,
                   requests, input, call>>

\* the listeners exist once the controller is constructed; the first event
\* can only be dispatched after init() has reached its await
Listening == fetchState \in {"pending", "loaded", "failed"}

\* onSearchInput as it would be if the search callback only re-sliced
onSearchInputSliceOnly(text) ==
    /\ Listening
    /\ pageBefore' = currentPage
    /\ searchTerm' = trim(text)
    /\ updateDisplay(filteredProducts, currentPage, pageSize)
    /\ calls' = <<"input", "onSearchChangeCallback", "updateDisplay">>
    /\ UNCHANGED <<products, filteredProducts, currentSort, pageSize, fetchState,
                   requests, thrown, input, call>>

\* the 'input' listener as it would be if a search went back to page 1
onSearchInputFirstPage(text) ==
    /\ Listening
    /\ pageBefore' = currentPage
    /\ searchTerm' = trim(text)
    /\ applyFilters(products, searchTerm', currentSort, 1, pageSize)
    /\ calls' = <<"input", "onSearchChangeCallback", "applyFilters", "updateDisplay">>
    /\ UNCHANGED <<currentSort, pageSize, fetchState, requests, thrown, input, call>>

\* the 'input' listener of the search box
onSearchInput(text) ==
    /\ Listening
    /\ pageBefore' = currentPage
    /\ searchTerm' = trim(text)
    /\ applyFilters(products, searchTerm', currentSort, currentPage, pageSize)
    /\ calls' = <<"input", "onSearchChangeCallback", "applyFilters", "updateDisplay">>
    /\ UNCHANGED <<currentSort, pageSize, fetchState, requests, thrown, input, call>>

\* toggleSort as it would be if the sort callback only re-sliced
toggleSortSliceOnly(field) ==
    /\ Listening
    /\ pageBefore' = currentPage
    /\ currentSort' = ToggledSort(currentSort, field)
    /\ updateDisplay(filteredProducts, currentPage, pageSize)
    /\ calls' = <<"toggleSort", "onSortChangeCallback", "applyFilters", "updateDisplay">>
    /\ UNCHANGED <<products, filteredProducts, searchTerm, pageSize, fetchState,
                   requests, thrown, input, call>>

\* toggleSort(field), from the click listeners of the two sort buttons
toggleSort(field) ==
    /\ Listening
    /\ pageBefore' = currentPage
    /\ currentSort' = ToggledSort(currentSort, field)
    /\ applyFilters(products, searchTerm, currentSort', currentPage, pageSize)
    /\ calls' = <<"toggleSort", "onSortChangeCallback", "applyFilters", "updateDisplay">>
    /\ UNCHANGED <<searchTerm, pageSize, fetchState, requests, thrown, input, call>>

\* goToPage as it would be with the lower guard off by one (page < 0)
goToPageFromZero(page) ==
    /\ Listening
    /\ pageBefore' = currentPage
    /\ IF page < 0 \/ page > totalPages
       THEN /\ calls' = <<"goToPage">>
            /\ UNCHANGED <<currentPageProducts, currentPage, totalItems, totalPages,
                           dom>>
       ELSE /\ updateDisplay(filteredProducts, page, pageSize)
            /\ calls' = <<"goToPage", "onPageChangeCallback", "updateDisplay">>
    /\ UNCHANGED <<products, filteredProducts, searchTerm, currentSort, pageSize,
                   fetchState, requests, thrown, input, call>>

\* goToPage(page)
goToPage(page) ==
    /\ Listening
    /\ pageBefore' = currentPage
    /\ IF page < 1 \/ page > totalPages
       THEN /\ calls' = <<"goToPage">>
            /\ UNCHANGED <<currentPageProducts, currentPage, totalItems, totalPages,
                           dom>>
       ELSE /\ updateDisplay(filteredProducts, page, pageSize)
            /\ calls' = <<"goToPage", "onPageChangeCallback", "updateDisplay">>
    /\ UNCHANGED <<products, filteredProducts, searchTerm, currentSort, pageSize,
                   fetchState, requests, thrown, input, call>>

\* a click can reach child k of the pagination controls: the container is
\* displayed, and the child is a button of the given kind that is not disabled
Clickable(k, kind) ==
    /\ dom.paginationContainer = "flex"
    /\ k \in 1..Len(dom.paginationControls)
    /\ dom.paginationControls[k].kind = kind
    /\ kind \in {"previous", "next"} => ~dom.paginationControls[k].disabled

\* the 'click' listener of the Previous button
clickPrevious ==
    /\ \E k \in 1..Len(dom.paginationControls) : Clickable(k, "previous")
    /\ IF currentPage > 1
       THEN goToPage(currentPage - 1)
       ELSE /\ pageBefore' = currentPage
            /\ calls' = <<"click">>
            /\ UNCHANGED <<products, filteredProducts, currentPageProducts,
                           searchTerm, currentSort, currentPage, pageSize,
                           totalItems, totalPages, fetchState, requests, thrown,
                           dom, input, call>>

\* the 'click' listener of the Next button
clickNext ==
    /\ \E k \in 1..Len(dom.paginationControls) : Clickable(k, "next")
    /\ IF currentPage < totalPages
       THEN goToPage(currentPage + 1)
       ELSE /\ pageBefore' = currentPage
            /\ calls' = <<"click">>
            /\ UNCHANGED <<products, filteredProducts, currentPageProducts,
                           searchTerm, currentSort, currentPage, pageSize,
                           totalItems, totalPages, fetchState, requests, thrown,
                           dom, input, call>>

\* the 'click' listener of the page button that is child k of the controls
clickPageButton(k) ==
    /\ Clickable(k, "page")
    /\ goToPage(dom.paginationControls[k].page)

\* changePageSize as it would be without the reset of currentPage
changePageSizeKeepsPage(size) ==
    /\ Listening
    /\ pageBefore' = currentPage
    /\ IF size \notin ValidSizes
       THEN /\ calls' = <<"changePageSize">>
            /\ UNCHANGED <<products, filteredProducts, currentPageProducts,
                           currentPage, pageSize, totalItems, totalPages, dom>>
       ELSE /\ pageSize' = size.value
            /\ applyFilters(products, searchTerm, currentSort, currentPage, pageSize')
            /\ calls' = <<"changePageSize", "onPageSizeChangeCallback", "applyFilters",
                          "updateDisplay">>
    /\ UNCHANGED <<searchTerm, currentSort, fetchState, requests, thrown, input, call>>

\* changePageSize as it would be if every positive number were a valid size
changePageSizeAnySize(size) ==
    /\ Listening
    /\ pageBefore' = currentPage
    /\ IF size.nan \/ size.value < 1
       THEN /\ calls' = <<"changePageSize">>
            /\ UNCHANGED <<products, filteredProducts, currentPageProducts,
                           currentPage, pageSize, totalItems, totalPages, dom>>
       ELSE /\ pageSize' = size.value
            /\ applyFilters(products, searchTerm, currentSort, 1, pageSize')
            /\ calls' = <<"changePageSize", "onPageSizeChangeCallback", "applyFilters",
                          "updateDisplay">>
    /\ UNCHANGED <<searchTerm, currentSort, fetchState, requests, thrown, input, call>>

\* changePageSize(size)
changePageSize(size) ==
    /\ Listening
    /\ pageBefore' = currentPage
    /\ IF size \notin ValidSizes
       THEN /\ calls' = <<"changePageSize">>
            /\ UNCHANGED <<products, filteredProducts, currentPageProducts,
                           currentPage, pageSize, totalItems, totalPages, dom>>
       ELSE /\ pageSize' = size.value
            /\ applyFilters(products, searchTerm, currentSort, 1, pageSize')
            /\ calls' = <<"changePageSize", "onPageSizeChangeCallback", "applyFilters",
                          "updateDisplay">>
    /\ UNCHANGED <<searchTerm, currentSort, fetchState, requests, thrown, input, call>>

\* the 'change' listener of the page-size select
onPageSizeSelect(value) == changePageSize(parseInt(value))

Next ==
    \/ init
    \/ \E catalog \in Catalogs : FetchResolved(catalog)
    \/ \E error \in Failures : FetchRejected(error)
    \/ \E text \in SearchTexts : onSearchInput(text)
    \/ \E field \in {"price", "title"} : toggleSort(field)
    \/ \E page \in 0..MaxPageInput : goToPage(page)
    \/ clickPrevious
    \/ clickNext
    \/ \E k \in 1..(MaxVisiblePages + 6) : clickPageButton(k)
    \/ \E value \in SelectValues : onPageSizeSelect(value)

Spec == Init /\ [][Next]_vars

(***************************************************************************)
(* The pipeline functions called directly, each on freshly constructed     *)
(* components, on every collection of Collections and on what is no array. *)
(***************************************************************************)
InitFn ==
    /\ input \in Collections \cup NotArrays
    /\ call = NoCall
    /\ products = << >>
    /\ filteredProducts = << >>
    /\ currentPageProducts = << >>
    /\ searchTerm = << >>
    /\ currentSort = [field |-> "null", direction |-> "asc"]
    /\ currentPage = 1
    /\ pageSize = DefaultPageSize
    /\ totalItems = 0
    /\ totalPages = 0
    /\ fetchState = "none"
    /\ requests = 0
    /\ thrown = NoError
    /\ dom = InitialPage
    /\ calls = << >>
    /\ pageBefore = 1

\* no DashboardController has been constructed and nothing has been called
Uncalled == fetchState = "none" /\ call = NoCall

\* searchFilter.filter(input, termArg) while searchFilter.searchTerm = stored
callFilter(termArg, stored) ==
    /\ Uncalled
    /\ searchTerm' = stored
    /\ call' = [op |-> "filter", term |-> termArg,
                returned |-> filter(input, termArg, stored)]
    /\ UNCHANGED <<products, filteredProducts, currentPageProducts, currentSort,
                   currentPage, pageSize, totalItems, totalPages, fetchState,
                   requests, thrown, dom, calls, pageBefore, input>>

\* sortController.sortByPrice(input, direction)
callSortByPrice(direction) ==
    /\ Uncalled
    /\ call' = [op |-> "sortByPrice", direction |-> direction,
                returned |-> sortByPrice(input, direction)]
    /\ input' = inputAfterSort(input, "price", direction)
    /\ UNCHANGED <<controllerVars, currentPage, pageSize, totalItems, totalPages>>

\* sortController.sortByName(input, direction)
callSortByName(direction) ==
    /\ Uncalled
    /\ call' = [op |-> "sortByName", direction |-> direction,
                returned |-> sortByName(input, direction)]
    /\ input' = inputAfterSort(input, "title", direction)
    /\ UNCHANGED <<controllerVars, currentPage, pageSize, totalItems, totalPages>>

\* sortController.applySorting(input) while sortController.currentSort = sort
callApplySorting(sort) ==
    /\ Uncalled
    /\ currentSort' = sort
    /\ call' = [op |-> "applySorting", returned |-> applySorting(input, sort)]
    /\ UNCHANGED <<products, filteredProducts, currentPageProducts, searchTerm,
                   currentPage, pageSize, totalItems, totalPages, fetchState,
                   requests, thrown, dom, calls, pageBefore, input>>

\* paginationController.getPagedData(input) while its currentPage = cp and its
\* pageSize = ps
callGetPagedData(cp, ps) ==
    LET paged == getPagedData(input, cp, ps)
    IN  /\ Uncalled
        /\ pageSize' = ps
        /\ currentPage' = FieldAfter(paged, "currentPage", cp)
        /\ totalItems' = FieldAfter(paged, "totalItems", totalItems)
        /\ totalPages' = FieldAfter(paged, "totalPages", totalPages)
        /\ call' = [op |-> "getPagedData", currentPage |-> cp,
                    returned |-> paged.returned]
        /\ UNCHANGED <<controllerVars, input>>

\* paginationController.renderPageNumbers() while its currentPage = cp and
\* its totalPages = pages, the state renderControls calls it in; no
\* collection takes part in the call
callRenderPageNumbers(cp, pages) ==
    /\ Uncalled
    /\ input = << >>
    /\ currentPage' = cp
    /\ totalPages' = pages
    /\ call' = [op |-> "renderPageNumbers", returned |-> renderPageNumbers(cp, pages)]
    /\ UNCHANGED <<controllerVars, pageSize, totalItems, input>>

\* the values currentSort can take
SortStates ==
    { [field |-> "null", direction |-> "asc"] }
    \cup { [field |-> f, direction |-> d] : f \in {"price", "title"}, d \in Directions }

NextFn ==
    \/ \E termArg \in TermArgs, text \in SearchTexts : callFilter(termArg, trim(text))
    \/ \E direction \in Directions : callSortByPrice(direction)
    \/ \E direction \in Directions : callSortByName(direction)
    \/ \E sort \in SortStates : callApplySorting(sort)
    \/ \E cp \in 1..MaxPageInput, size \in ValidSizes : callGetPagedData(cp, size.value)
    \/ \E pages \in 2..MaxPages : \E cp \in 1..pages : callRenderPageNumbers(cp, pages)

SpecFn == InitFn /\ [][NextFn]_vars

\* the controller and the direct calls in one specification
SpecAll == (Init \/ InitFn) /\ [][Next \/ NextFn]_vars

(***************************************************************************)
(* What the properties are stated in: matching, key order and paging       *)
(* written out directly, without the operators that model the code.        *)
(***************************************************************************)
IsString(term) == term # Undefined /\ term # Null

\* title contains term, letter case ignored
ContainsFolded(title, term) ==
    \E off \in 0..(Len(title) - Len(term)) :
        \A k \in 1..Len(term) : LowerChar(title[off + k]) = LowerChar(term[k])

\* the positions of p whose product has a title containing term
Matching(p, term) ==
    { i \in 1..Len(p) : "title" \in DOMAIN p[i] /\ ContainsFolded(p[i].title, term) }

\* q lists the elements of p at the positions of keep, in p's order
IsSelection(q, p, keep) ==
    /\ Len(q) = Cardinality(keep)
    /\ \A i \in keep : q[Cardinality({ j \in keep : j <= i })] = p[i]

\* the price a product is compared by: 0 when it has none
PriceKey(a) == IF "price" \in DOMAIN a THEN a.price ELSE 0

\* the title a product is compared by: folded, empty when it has none
TitleKey(a) ==
    IF "title" \in DOMAIN a THEN [i \in 1..Len(a.title) |-> LowerChar(a.title[i])]
    ELSE << >>

LetterBefore(c, d) == (c = "a" /\ d = "b") \/ (c = " " /\ d \in {"a", "b"})

\* s is before t in dictionary order
StringBefore(s, t) ==
    \E k \in 1..(Len(t)) :
        /\ k <= Len(s) + 1
        /\ \A j \in 1..(k - 1) : s[j] = t[j]
        /\ (k = Len(s) + 1 \/ LetterBefore(s[k], t[k]))

\* a comes strictly before b in the order of field and direction
KeyBefore(a, b, field, direction) ==
    LET up == IF field = "price" THEN PriceKey(a) < PriceKey(b)
              ELSE StringBefore(TitleKey(a), TitleKey(b))
        down == IF field = "price" THEN PriceKey(a) > PriceKey(b)
                ELSE StringBefore(TitleKey(b), TitleKey(a))
    IN  IF direction = "asc" THEN up ELSE down

KeyTie(a, b, field) ==
    IF field = "price" THEN PriceKey(a) = PriceKey(b) ELSE TitleKey(a) = TitleKey(b)

\* the position of x in p, whose elements are distinct
Pos(p, x) == CHOOSE i \in 1..Len(p) : p[i] = x

\* q holds every element of p exactly once
IsPermutation(q, p) ==
    /\ Len(q) = Len(p)
    /\ \A i \in 1..Len(p) : Cardinality({ j \in 1..Len(q) : q[j] = p[i] }) = 1

\* no element of q comes before an element it should follow
IsOrdered(q, field, direction) ==
    \A i, j \in 1..Len(q) : i < j => ~KeyBefore(q[j], q[i], field, direction)

\* tied elements of q are in the order they have in p
KeepsTies(q, p, field) ==
    \A i, j \in 1..Len(q) :
        (i < j /\ KeyTie(q[i], q[j], field)) => Pos(p, q[i]) < Pos(p, q[j])

\* q is p in the order of field and direction, stably
IsStableSort(q, p, field, direction) ==
    /\ IsPermutation(q, p)
    /\ IsOrdered(q, field, direction)
    /\ KeepsTies(q, p, field)

\* the elements of p at the positions of keep, in p's order
Selection(p, keep) ==
    [r \in 1..Cardinality(keep) |->
        p[CHOOSE i \in keep : Cardinality({ j \in keep : j <= i }) = r]]

\* items (cp-1)*ps .. cp*ps - 1 of seq, counted from 0, as far as seq goes
PageOf(seq, cp, ps) ==
    [i \in 1..Max(0, Min(ps, Len(seq) - (cp - 1) * ps)) |-> seq[(cp - 1) * ps + i]]

\* the products the search term keeps
Searched ==
    Selection(products, IF searchTerm = << >> THEN 1..Len(products)
                        ELSE Matching(products, searchTerm))

Reverse(seq) == [i \in 1..Len(seq) |-> seq[Len(seq) + 1 - i]]

(***************************************************************************)
(* C1  In every state reached by UI events on a fetched collection,        *)
(*     1 <= currentPage <= max(totalPages, 1).                             *)
(*     The code does not keep this: getPagedData clamps currentPage only   *)
(*     when totalPages > 0, so a search that empties the collection while  *)
(*     the user is on page 2 or later leaves currentPage above 1 with      *)
(*     totalPages = 0.                                                     *)
(***************************************************************************)
C1_CurrentPageInRange ==
    /\ 1 <= currentPage
    /\ currentPage <= Max(totalPages, 1)

(***************************************************************************)
(* C2  After every handler the stored collection is the searched products  *)
(*     in the order of currentSort, and the visible page is the page       *)
(*     currentPage of it, recomputed from products, searchTerm,            *)
(*     currentSort, currentPage and pageSize.                              *)
(***************************************************************************)
C2_ViewIsRecomputation ==
    /\ IF currentSort.field = "null" THEN filteredProducts = Searched
       ELSE IsStableSort(filteredProducts, Searched, currentSort.field,
                         currentSort.direction)
    /\ currentPageProducts = PageOf(filteredProducts, currentPage, pageSize)

\* reached: a page select landed on page 2 of a searched, price-sorted catalog
C2_Witness ==
    /\ calls = <<"goToPage", "onPageChangeCallback", "updateDisplay">>
    /\ currentPage = 2
    /\ searchTerm # << >>
    /\ currentSort = [field |-> "price", direction |-> "desc"]
    /\ Len(filteredProducts) < Len(products)
    /\ currentPageProducts # << >>

\* product a carries the title t / the price n
TitleIs(a, t) == "title" \in DOMAIN a /\ a.title = t
PriceIs(a, n) == "price" \in DOMAIN a /\ a.price = n

\* how often x occurs in seq
CountOf(seq, x) == Cardinality({ i \in 1..Len(seq) : seq[i] = x })

\* the handler ran applyFilters and, after it, updateDisplay
RanFullChain(trace) ==
    \E i, j \in 1..Len(trace) :
        i < j /\ trace[i] = "applyFilters" /\ trace[j] = "updateDisplay"

(***************************************************************************)
(* C3  A page select with a valid page runs updateDisplay only: products,  *)
(*     searchTerm, currentSort, pageSize and the stored collection stay    *)
(*     as they are and the visible page is re-sliced from the stored       *)
(*     collection; a search input, a sort toggle and a valid page-size     *)
(*     change each run applyFilters and then updateDisplay: the stored     *)
(*     collection is filter, then applySorting, of products and the        *)
(*     visible page is getPagedData of it.                                 *)
(***************************************************************************)
C3_PageSelectOnlyReslices ==
    [][ /\ \A page \in 1..MaxPageInput :
             (calls'[1] = "goToPage" /\ page <= totalPages /\ goToPage(page)) =>
                /\ UNCHANGED <<products, searchTerm, currentSort, pageSize,
                               filteredProducts>>
                /\ ~RanFullChain(calls')
                /\ CountOf(calls', "updateDisplay") = 1
                /\ currentPage' = page
                /\ currentPageProducts' = PageOf(filteredProducts, page, pageSize)
        /\ ( \/ calls'[1] \in {"input", "toggleSort"}
             \/ calls'[1] = "changePageSize" /\ pageSize' # pageSize ) =>
                /\ RanFullChain(calls')
                /\ UNCHANGED products
                /\ filteredProducts' =
                     applySorting(filter(products, searchTerm', searchTerm'), currentSort')
                /\ currentPageProducts' =
                     getPagedData(filteredProducts', currentPage', pageSize').returned
      ]_vars

\* reached: a page select moved to page 3 of a title-sorted catalog
C3_Witness ==
    /\ calls = <<"goToPage", "onPageChangeCallback", "updateDisplay">>
    /\ pageBefore = 1
    /\ currentPage = 3
    /\ currentSort.field = "title"
    /\ filteredProducts # products

(***************************************************************************)
(* C4  changePageSize(size) with size 5, 10 or 20 sets pageSize to size    *)
(*     and currentPage to 1 whatever the page was, and runs the full       *)
(*     chain, so that the visible page is the first pageSize items of the  *)
(*     sorted collection; with any other size, NaN included, it changes    *)
(*     nothing and signals nothing.                                        *)
(***************************************************************************)
SizeArgs == { parseInt(value) : value \in SelectValues }

C4_ChangePageSize ==
    [][ \A size \in SizeArgs :
          (calls'[1] = "changePageSize" /\ changePageSize(size)) =>
            IF ~size.nan /\ size.value \in {5, 10, 20}
            THEN /\ pageSize' = size.value
                 /\ currentPage' = 1
                 /\ CountOf(calls', "onPageSizeChangeCallback") = 1
                 /\ RanFullChain(calls')
                 /\ IF currentSort.field = "null" THEN filteredProducts' = Searched
                    ELSE IsStableSort(filteredProducts', Searched, currentSort.field,
                                      currentSort.direction)
                 /\ currentPageProducts' =
                      SubSeq(filteredProducts', 1, Min(size.value, Len(filteredProducts')))
            ELSE /\ UNCHANGED <<products, filteredProducts, currentPageProducts,
                                searchTerm, currentSort, currentPage, pageSize,
                                totalItems, totalPages, fetchState>>
                 /\ calls' = <<"changePageSize">>
      ]_vars

\* reached: a change to page size 5 on page 2 of 2, back on page 1 of 3
C4_Witness ==
    /\ Len(calls) = 4
    /\ calls[1] = "changePageSize"
    /\ pageBefore = 2
    /\ currentPage = 1
    /\ pageSize = 5
    /\ totalPages = 3
    /\ Len(currentPageProducts) = 5

(***************************************************************************)
(* C5  goToPage(n) with n < 1 or n > totalPages, so every n while          *)
(*     totalPages = 0, changes nothing and signals no page change;         *)
(*     otherwise it sets currentPage to n and signals one page change.     *)
(***************************************************************************)
C5_GoToPage ==
    [][ \A n \in 0..MaxPageInput :
          (calls'[1] = "goToPage" /\ goToPage(n)) =>
            IF n < 1 \/ n > totalPages
            THEN /\ UNCHANGED <<products, filteredProducts, currentPageProducts,
                                searchTerm, currentSort, currentPage, pageSize,
                                totalItems, totalPages, fetchState>>
                 /\ CountOf(calls', "onPageChangeCallback") = 0
            ELSE /\ currentPage' = n
                 /\ CountOf(calls', "onPageChangeCallback") = 1
      ]_vars

\* reached: a page select refused because a search left no page at all
C5_Witness ==
    /\ calls = <<"goToPage">>
    /\ fetchState = "loaded"
    /\ products # << >>
    /\ totalPages = 0

(***************************************************************************)
(* C6  For every collection and page size 5, 10 or 20, getPagedData sets   *)
(*     totalPages to the least number of pages of pageSize items that      *)
(*     hold the collection and returns items (currentPage-1)*pageSize up   *)
(*     to currentPage*pageSize of it; every page before the last has       *)
(*     pageSize items, the last has the rest, and pages 1..totalPages put  *)
(*     end to end are the collection.                                      *)
(***************************************************************************)
\* pages 1..p of data, each got from getPagedData, put end to end
RECURSIVE PagesUpTo(_, _, _)
PagesUpTo(data, p, ps) ==
    IF p = 0 THEN << >>
    ELSE PagesUpTo(data, p - 1, ps) \o getPagedData(data, p, ps).returned

C6_Pagination ==
    (call.op = "getPagedData" /\ IsArray(input)) =>
        /\ pageSize \in {5, 10, 20}
        /\ totalItems = Len(input)
        /\ totalPages * pageSize >= Len(input)
        /\ (totalPages - 1) * pageSize < Len(input)
        /\ call.returned = PageOf(input, currentPage, pageSize)
        /\ \A p \in 1..totalPages :
             Len(getPagedData(input, p, pageSize).returned) =
               IF p < totalPages THEN pageSize
               ELSE Len(input) - (totalPages - 1) * pageSize
        /\ PagesUpTo(input, totalPages, pageSize) = input

\* reached: page 3 of 11 items in pages of 5 is the one last item
C6_Witness ==
    /\ call.op = "getPagedData"
    /\ call.currentPage = 3
    /\ Len(input) = 11
    /\ pageSize = 5
    /\ totalPages = 3
    /\ call.returned = <<input[11]>>

(***************************************************************************)
(* C7  For every collection and non-empty term, filter returns exactly     *)
(*     the products whose title contains the term, letter case ignored:    *)
(*     every returned product matches, every product left out has no       *)
(*     title or does not match, and the returned products are in the       *)
(*     order they have in the collection.                                  *)
(***************************************************************************)
C7_FilterMatches ==
    (call.op = "filter" /\ IsArray(input) /\ IsString(call.term) /\ call.term # << >>) =>
        LET keep == Matching(input, call.term)
            out == call.returned
        IN  /\ \A k \in 1..Len(out) :
                 "title" \in DOMAIN out[k] /\ ContainsFolded(out[k].title, call.term)
            /\ \A i \in 1..Len(input) :
                 (\E k \in 1..Len(out) : out[k] = input[i]) <=> i \in keep
            /\ \A k, l \in 1..Len(out) :
                 k < l => Pos(input, out[k]) < Pos(input, out[l])
            /\ Len(out) = Cardinality(keep)

\* reached: "aB" keeps "Ab" and "ab" and drops the product without a title
C7_Witness ==
    /\ call.op = "filter"
    /\ call.term = <<"a", "B">>
    /\ Len(input) = 3
    /\ TitleIs(input[1], <<"A", "b">>)
    /\ "title" \notin DOMAIN input[2]
    /\ TitleIs(input[3], <<"a", "b">>)
    /\ call.returned = <<input[1], input[3]>>

(***************************************************************************)
(* C8  As claimed: filter with an empty or absent term returns the         *)
(*     collection unchanged.                                               *)
(***************************************************************************)
C8_EmptyOrAbsentTermIsIdentity ==
    (call.op = "filter" /\ IsArray(input) /\ call.term \in {<< >>, Null, Undefined}) =>
        call.returned = input

(***************************************************************************)
(* C8  As amended: filter with the term "" or null returns the collection  *)
(*     unchanged, products without a title included; with the term         *)
(*     argument left out it filters by the stored searchTerm, and so       *)
(*     returns the collection unchanged when that is empty and the         *)
(*     products whose title contains it otherwise.                         *)
(***************************************************************************)
C8_EmptyTermIsIdentity ==
    (call.op = "filter" /\ IsArray(input)) =>
        /\ call.term \in {<< >>, Null} => call.returned = input
        /\ call.term = Undefined =>
             IF searchTerm = << >> THEN call.returned = input
             ELSE IsSelection(call.returned, input, Matching(input, searchTerm))

\* reached: the term "" handed in while a search term is stored, on a
\* collection with a product that has no title
C8_Witness ==
    /\ call.op = "filter"
    /\ call.term = << >>
    /\ searchTerm = <<"a">>
    /\ Len(input) = 3
    /\ "title" \notin DOMAIN input[2]
    /\ call.returned = input

(***************************************************************************)
(* C9  For every collection and direction, sortByPrice returns a           *)
(*     permutation of the collection, of the same length, with prices      *)
(*     non-decreasing for asc and non-increasing for desc, a missing       *)
(*     price counting as 0, and products of equal price in the order       *)
(*     they have in the collection.                                        *)
(***************************************************************************)
C9_SortByPrice ==
    (call.op = "sortByPrice" /\ IsArray(input)) =>
        LET out == call.returned
        IN  /\ Len(out) = Len(input)
            /\ IsPermutation(out, input)
            /\ \A i, j \in 1..Len(out) :
                 i < j => IF call.direction = "asc" THEN PriceKey(out[i]) <= PriceKey(out[j])
                          ELSE PriceKey(out[i]) >= PriceKey(out[j])
            /\ \A i, j \in 1..Len(out) :
                 (i < j /\ PriceKey(out[i]) = PriceKey(out[j])) =>
                    Pos(input, out[i]) < Pos(input, out[j])

\* reached: desc puts price 2 first and leaves no price and price 0 in order
C9_Witness ==
    /\ call.op = "sortByPrice"
    /\ call.direction = "desc"
    /\ Len(input) = 3
    /\ "price" \notin DOMAIN input[1]
    /\ PriceIs(input[2], 0)
    /\ PriceIs(input[3], 2)
    /\ call.returned = <<input[3], input[1], input[2]>>

(***************************************************************************)
(* C10 For every collection, sortByName orders by the folded title, a      *)
(*     missing title counting as empty, desc by the reverse of the asc     *)
(*     comparison, and leaves tied products in the order they have in the  *)
(*     collection in both directions; so the result of one direction is    *)
(*     the reversed result of the other exactly when no two products tie,  *)
(*     and otherwise the two differ only in the order inside tie groups.   *)
(***************************************************************************)
HasTie(p, field) ==
    \E i, j \in 1..Len(p) : i < j /\ KeyTie(p[i], p[j], field)

C10_SortByName ==
    (call.op = "sortByName" /\ IsArray(input)) =>
        LET out == call.returned
            opposite == IF call.direction = "asc" THEN "desc" ELSE "asc"
            mirrored == Reverse(sortByName(input, opposite))
        IN  /\ IsPermutation(out, input)
            /\ IsOrdered(out, "title", call.direction)
            /\ KeepsTies(out, input, "title")
            /\ (out = mirrored) <=> ~HasTie(input, "title")
            /\ \A i \in 1..Len(out) : KeyTie(out[i], mirrored[i], "title")

\* reached: desc of "ab", "Ab", "b" keeps "ab" before "Ab", which the
\* reversed asc result does not
C10_Witness ==
    /\ call.op = "sortByName"
    /\ call.direction = "desc"
    /\ Len(input) = 3
    /\ TitleIs(input[1], <<"a", "b">>)
    /\ TitleIs(input[2], <<"A", "b">>)
    /\ TitleIs(input[3], <<"b">>)
    /\ call.returned = <<input[3], input[1], input[2]>>
    /\ call.returned # Reverse(sortByName(input, "asc"))

(***************************************************************************)
(* C11 Once the fetch has succeeded no search, sort, page or page-size     *)
(*     event changes products, and a direct call of sortByPrice or         *)
(*     sortByName leaves the array it was handed as it was: the sorted     *)
(*     array is a new one.                                                 *)
(***************************************************************************)
C11_ProductsAndSortInputUntouched ==
    [][ /\ fetchState = "loaded" => products' = products
        /\ (call.op = "none" /\ call'.op \in {"sortByPrice", "sortByName"}) =>
              input' = input
      ]_vars

\* reached: the fetched products in fetched order under a stored collection
\* that a sort by price, descending, has put in another order
C11_Witness ==
    /\ fetchState = "loaded"
    /\ calls[1] = "toggleSort"
    /\ currentSort = [field |-> "price", direction |-> "desc"]
    /\ Len(products) = MaxProducts
    /\ \A i \in 1..Len(products) : products[i].id = i
    /\ IsPermutation(filteredProducts, products)
    /\ filteredProducts # products

(***************************************************************************)
(* C12 toggleSort(field) on the field that is already the sort field       *)
(*     flips the direction; on any other field it sets the field and the   *)
(*     direction asc, whatever the direction was; each time it signals     *)
(*     one sort change and the full chain runs under the new sort.         *)
(***************************************************************************)
C12_ToggleSort ==
    [][ \A field \in {"price", "title"} :
          (calls'[1] = "toggleSort" /\ toggleSort(field)) =>
            /\ currentSort'.field = field
            /\ currentSort'.direction =
                  IF currentSort.field # field THEN "asc"
                  ELSE IF currentSort.direction = "asc" THEN "desc" ELSE "asc"
            /\ CountOf(calls', "onSortChangeCallback") = 1
            /\ RanFullChain(calls')
            /\ filteredProducts' =
                  applySorting(filter(products, searchTerm, searchTerm), currentSort')
            /\ currentPageProducts' =
                  getPagedData(filteredProducts', currentPage', pageSize).returned
      ]_vars

\* reached: a toggle has set title ascending and the stored collection, in
\* which the products without a title come first, is no longer in fetched
\* order
C12_Witness ==
    /\ fetchState = "loaded"
    /\ calls[1] = "toggleSort"
    /\ currentSort = [field |-> "title", direction |-> "asc"]
    /\ Len(filteredProducts) = MaxProducts
    /\ filteredProducts # products
    /\ NoTitle(filteredProducts[1])
    /\ "title" \notin DOMAIN filteredProducts[2]

(***************************************************************************)
(* C13 When the fetch fails, the state init() leaves is this: products is  *)
(*     still empty, the loading container no longer holds the loading      *)
(*     indicator but, displayed, the error message of init(), the table    *)
(*     and the no-results element are hidden, and the error container      *)
(*     holds a message of handleError; for HTTP 503, as for every status   *)
(*     of 500 or more, that message is the server-error message.  products *)
(*     stays empty under every later event.                                *)
(***************************************************************************)
C13_FailedFetch ==
    /\ fetchState = "failed" => products = << >>
    /\ (fetchState = "failed" /\ calls[1] = "init") =>
         /\ dom.loadingContainer = [display |-> "block", innerHTML |-> "cannot-load"]
         /\ dom.table = "none"
         /\ dom.noResults = "none"
         /\ dom.errorContainer # ""
         /\ \A status \in HttpStatuses :
              (thrown = HttpError(status) /\ status >= 500) =>
                 dom.errorContainer = "server"

\* reached: the fetch has failed with HTTP 503
C13_Witness ==
    /\ fetchState = "failed"
    /\ calls[1] = "init"
    /\ thrown = HttpError(503)
    /\ dom.errorContainer = "server"
    /\ dom.loadingContainer.innerHTML = "cannot-load"
    /\ products = << >>

(***************************************************************************)
(* C14 When the fetch has failed, one request was made, handleError ran    *)
(*     once, products is empty, and exactly one error message is on the    *)
(*     page.                                                               *)
(*     The code does not keep the last part: handleError puts its message  *)
(*     into the error container and the catch of init() puts another into  *)
(*     the loading container, so two messages are on the page.             *)
(***************************************************************************)
\* how many elements of the page d show an error message
MessagesShown(d) ==
    (IF d.errorContainer # "" THEN 1 ELSE 0)
    + (IF /\ d.loadingContainer.display = "block"
          /\ d.loadingContainer.innerHTML # "loading-indicator"
       THEN 1 ELSE 0)

C14_OneMessagePerFailure ==
    (fetchState = "failed" /\ calls[1] = "init") =>
        /\ requests = 1
        /\ CountOf(calls, "handleError") = 1
        /\ products = << >>
        /\ MessagesShown(dom) = 1

(***************************************************************************)
(* C15 When the fetch has failed, whatever the failure, the message        *)
(*     handleError displayed is the network, the server-error, the         *)
(*     client-error or the invalid-format message.                         *)
(*     The code does not keep this: a body that is not JSON, a status      *)
(*     below 400 and a rejected fetch whose message lacks 'fetch' all get  *)
(*     the default message.                                                *)
(***************************************************************************)
C15_FourCategories ==
    (fetchState = "failed" /\ calls[1] = "init") =>
        dom.errorContainer \in {"network", "server", "client", "invalid-data"}

(***************************************************************************)
(* C16 While the fetch is pending no handler has run applyFilters or       *)
(*     updateDisplay, the loading container is displayed and the           *)
(*     no-results element is hidden.                                       *)
(*     The code does not keep this: the listeners are live while init()    *)
(*     awaits, and an input, a sort click or a page-size change runs the   *)
(*     chain on the empty products and renders no results.                 *)
(***************************************************************************)
C16_NothingRunsWhilePending ==
    fetchState = "pending" =>
        /\ CountOf(calls, "applyFilters") = 0
        /\ CountOf(calls, "updateDisplay") = 0
        /\ dom.loadingContainer.display = "block"
        /\ dom.noResults = "none"

(***************************************************************************)
(* C17 Once updateDisplay has run, the pagination container is displayed   *)
(*     exactly when totalPages >= 2 and hidden when totalPages is 0 or 1;  *)
(*     with one page the visible page is the whole stored collection.      *)
(***************************************************************************)
C17_PaginationControls ==
    (fetchState = "loaded" \/ CountOf(calls, "updateDisplay") > 0) =>
        /\ dom.paginationContainer = "flex" <=> totalPages >= 2
        /\ totalPages <= 1 => dom.paginationContainer = "none"
        /\ totalPages = 1 => currentPageProducts = filteredProducts

\* reached: a search on page 2 of 2 has left one page, and the controls that
\* were displayed are hidden
C17_Witness ==
    /\ fetchState = "loaded"
    /\ calls[1] = "input"
    /\ pageBefore = 2
    /\ totalPages = 1
    /\ Len(filteredProducts) < Len(products)
    /\ currentPageProducts = filteredProducts
    /\ dom.paginationContainer = "none"

(***************************************************************************)
(* C18 filter, sortByPrice, sortByName, applySorting and getPagedData      *)
(*     return an empty array when what they are handed is undefined, null  *)
(*     or not an array, whatever the sort state and the page state.        *)
(*     The code does not keep this for applySorting: with no sort field    *)
(*     it returns what it was handed.                                      *)
(***************************************************************************)
C18_NotArrayGivesEmpty ==
    (call.op # "none" /\ ~IsArray(input)) => call.returned = << >>

(***************************************************************************)
(* C19 In every state, and so after every handler, pageSize is 5, 10 or    *)
(*     20, totalItems is the length of the stored collection and           *)
(*     totalPages is the least number of pages of pageSize items that      *)
(*     hold totalItems items.                                              *)
(***************************************************************************)
C19_PageState ==
    /\ pageSize \in {5, 10, 20}
    /\ totalItems = Len(filteredProducts)
    /\ totalPages >= 0
    /\ totalPages * pageSize >= totalItems
    /\ (totalPages - 1) * pageSize < totalItems

\* reached: the select has set page size 5 and 11 products make 3 pages
C19_Witness ==
    /\ fetchState = "loaded"
    /\ calls[1] = "changePageSize"
    /\ pageSize = 5
    /\ totalItems = MaxProducts
    /\ Len(filteredProducts) = MaxProducts
    /\ totalPages = 3

(***************************************************************************)
(* C20 In every state a handler that ran applyFilters has left, a second   *)
(*     run of applyFilters changes nothing: it stores the collection that  *)
(*     is stored, shows the page that is shown, and leaves currentPage,    *)
(*     totalItems, totalPages and the elements of the page as they are.    *)
(***************************************************************************)
C20_ApplyFiltersIdempotent ==
    (fetchState # "none" /\ CountOf(calls, "applyFilters") > 0) =>
        LET stored == FilteredAndSorted(products, searchTerm, currentSort)
            paged == getPagedData(stored, currentPage, pageSize)
        IN  /\ stored = filteredProducts
            /\ paged.returned = currentPageProducts
            /\ paged.currentPage = currentPage
            /\ paged.totalItems = totalItems
            /\ paged.totalPages = totalPages
            /\ renderControls(renderTable(dom, paged.returned), paged.currentPage,
                              pageSize, paged.totalItems, paged.totalPages) = dom

\* reached: a search on page 2 has left one page of matches, so that the run
\* of applyFilters moved currentPage and showed the first page
C20_Witness ==
    /\ fetchState = "loaded"
    /\ calls[1] = "input"
    /\ searchTerm # << >>
    /\ pageBefore = 2
    /\ currentPage = 1
    /\ currentPageProducts # << >>

(***************************************************************************)
(* C21 While no sort field is set, applySorting returns what it is handed, *)
(*     and the stored collection is, after every sequence of search, page  *)
(*     and page-size events, the products the search term keeps, in the    *)
(*     order in which they were fetched.                                   *)
(***************************************************************************)
C21_NoSortKeepsFetchedOrder ==
    /\ (call.op = "applySorting" /\ currentSort.field = "null") =>
         call.returned = input
    /\ (fetchState # "none" /\ currentSort.field = "null") =>
         /\ filteredProducts = Searched
         /\ \A i, j \in 1..Len(filteredProducts) :
              i < j => filteredProducts[i].id < filteredProducts[j].id

\* reached: no sort field, and a search has kept some of the products, which
\* the order of their prices would arrange otherwise
C21_Witness ==
    /\ fetchState = "loaded"
    /\ currentSort.field = "null"
    /\ calls[1] = "input"
    /\ searchTerm # << >>
    /\ Len(filteredProducts) >= 2
    /\ Len(filteredProducts) < Len(products)
    /\ sortByPrice(filteredProducts, "asc") # filteredProducts

(***************************************************************************)
(* C23 In every state, and so after every handler, a stored collection     *)
(*     that is not empty has a visible page that is not empty: the current *)
(*     page is one of its pages, whatever page selections, searches, sort  *)
(*     toggles and page-size changes came before.                          *)
(***************************************************************************)
C23_VisiblePageNotEmpty ==
    (fetchState # "none" /\ filteredProducts # << >>) =>
        /\ currentPageProducts # << >>
        /\ currentPage \in 1..totalPages
        /\ (currentPage - 1) * pageSize < Len(filteredProducts)

\* reached: on page 3 of 3 a search has left two pages, and the second is shown
C23_Witness ==
    /\ fetchState = "loaded"
    /\ calls[1] = "input"
    /\ pageBefore = 3
    /\ totalPages = 2
    /\ currentPage = 2
    /\ currentPageProducts # << >>

(***************************************************************************)
(* C24 A search input or a sort toggle leaves currentPage as it was when   *)
(*     the page still exists, sets it to the new totalPages when it was    *)
(*     beyond a new totalPages that is not 0, and leaves it as it was when *)
(*     the new stored collection is empty; a page-size change that is      *)
(*     accepted sets it to 1.                                              *)
(***************************************************************************)
C24_SearchAndSortKeepPage ==
    /\ (fetchState # "none" /\ calls # << >> /\ calls[1] \in {"input", "toggleSort"}) =>
         currentPage = IF totalPages = 0 THEN pageBefore
                       ELSE IF pageBefore > totalPages THEN totalPages
                       ELSE pageBefore
    /\ (fetchState # "none" /\ calls # << >> /\ calls[1] = "changePageSize"
          /\ Len(calls) > 1) =>
         currentPage = 1

\* reached: a search on page 2 of 3 has left two pages, and page 2 is shown
C24_Witness ==
    /\ fetchState = "loaded"
    /\ calls[1] = "input"
    /\ searchTerm # << >>
    /\ pageBefore = 2
    /\ currentPage = 2
    /\ totalPages = 2
    /\ Len(filteredProducts) < Len(products)

(***************************************************************************)
(* C22 init() displays the loading container before it calls               *)
(*     getAllProducts, and the state it leaves when the fetch has resolved *)
(*     has the loading container hidden and shows page 1 of the products   *)
(*     as fetched, not filtered and not sorted: the table if there are     *)
(*     products, the no-results element if there are none.                 *)
(*     The code does not keep the last part: a search input or sort click  *)
(*     that arrived while the fetch was pending has set the term or the    *)
(*     sort that applyFilters then uses.                                   *)
(***************************************************************************)
C22_InitShowsFirstPage ==
    /\ (fetchState = "pending" /\ calls[1] = "init") =>
         /\ dom.loadingContainer = [display |-> "block",
                                    innerHTML |-> "loading-indicator"]
         /\ \E i, j \in 1..Len(calls) :
              i < j /\ calls[i] = "showLoading" /\ calls[j] = "getAllProducts"
    /\ (fetchState = "loaded" /\ calls[1] = "init") =>
         /\ dom.loadingContainer.display = "none"
         /\ currentPage = 1
         /\ filteredProducts = products
         /\ currentPageProducts = SubSeq(products, 1, Min(pageSize, Len(products)))
         /\ IF products = << >>
            THEN dom.noResults = "block" /\ dom.table = "none"
            ELSE dom.noResults = "none" /\ dom.table = "table"

(***************************************************************************)
(* C25 While the pagination container is displayed there are at least two  *)
(*     pages and currentPage is one of them, whatever Previous, Next and   *)
(*     page buttons were clicked; the first control is the Previous        *)
(*     button, disabled exactly on page 1, the last is the Next button,    *)
(*     disabled exactly on the last page, every page button is for a page  *)
(*     that exists, and the info text has                                  *)
(*     1 <= startItem <= endItem <= totalItems.                            *)
(***************************************************************************)
C25_PaginationButtons ==
    (fetchState # "none" /\ dom.paginationContainer = "flex") =>
        LET controls == dom.paginationControls
            info == dom.paginationInfo
        IN  /\ totalPages >= 2
            /\ currentPage \in 1..totalPages
            /\ Len(controls) >= 2
            /\ controls[1].kind = "previous"
            /\ controls[1].disabled <=> currentPage = 1
            /\ controls[Len(controls)].kind = "next"
            /\ controls[Len(controls)].disabled <=> currentPage = totalPages
            /\ \A k \in 2..(Len(controls) - 1) :
                 /\ controls[k].kind \in {"page", "ellipsis"}
                 /\ controls[k].kind = "page" => controls[k].page \in 1..totalPages
            /\ 1 <= info.startItem
            /\ info.startItem <= info.endItem
            /\ info.endItem <= totalItems
            /\ info.totalItems = totalItems

\* reached: a click has led to the last of three pages, where Next is
\* disabled, Previous is not, and the info text ends at the last item
C25_Witness ==
    /\ fetchState = "loaded"
    /\ dom.paginationContainer = "flex"
    /\ calls[1] = "goToPage"
    /\ pageBefore = 2
    /\ currentPage = 3
    /\ totalPages = 3
    /\ dom.paginationControls[Len(dom.paginationControls)] =
         [kind |-> "next", disabled |-> TRUE]
    /\ dom.paginationControls[1] = [kind |-> "previous", disabled |-> FALSE]
    /\ dom.paginationInfo.startItem = 11
    /\ dom.paginationInfo.endItem = 11

(***************************************************************************)
(* C26 For every totalPages >= 2 and currentPage in 1..totalPages,         *)
(*     renderPageNumbers appends page buttons in strictly increasing       *)
(*     order, among them page 1, currentPage and totalPages; the buttons   *)
(*     other than the first and last page are a window of                  *)
(*     min(5, totalPages) consecutive pages that holds currentPage; and    *)
(*     "..." stands exactly between two page buttons that skip at least    *)
(*     one page.                                                           *)
(***************************************************************************)
\* the pages of the page buttons among the children, in order
PagesOf(children) ==
    LET buttons == SelectSeq(children, LAMBDA e : e.kind = "page")
    IN  [k \in 1..Len(buttons) |-> buttons[k].page]

C26_PageNumbers ==
    call.op = "renderPageNumbers" =>
        LET out == call.returned
            pages == PagesOf(out)
            shown == { pages[k] : k \in 1..Len(pages) }
            size == Min(5, totalPages)
        IN  /\ \A k \in 1..(Len(pages) - 1) : pages[k] < pages[k + 1]
            /\ {1, currentPage, totalPages} \subseteq shown
            /\ \E lo \in 1..totalPages :
                 /\ currentPage \in lo..(lo + size - 1)
                 /\ lo..(lo + size - 1) \subseteq shown
                 /\ shown \subseteq (lo..(lo + size - 1)) \cup {1, totalPages}
            /\ out[1].kind = "page" /\ out[Len(out)].kind = "page"
            /\ \A k \in 1..(Len(out) - 1) :
                 /\ (out[k].kind = "page" /\ out[k + 1].kind = "page") =>
                       out[k + 1].page = out[k].page + 1
                 /\ out[k].kind = "ellipsis" =>
                       /\ k > 1
                       /\ out[k - 1].kind = "page"
                       /\ out[k + 1].kind = "page"
                       /\ out[k + 1].page >= out[k - 1].page + 2
            /\ \A k \in 1..Len(out) :
                 out[k].kind = "page" => (out[k].active <=> out[k].page = currentPage)

\* reached: page 5 of 9, shown as 1 ... 3 4 5 6 7 ... 9
C26_Witness ==
    /\ call.op = "renderPageNumbers"
    /\ currentPage = 5
    /\ totalPages = 9
    /\ Len(call.returned) = 9
    /\ PagesOf(call.returned) = <<1, 3, 4, 5, 6, 7, 9>>
    /\ call.returned[2].kind = "ellipsis"
    /\ call.returned[8].kind = "ellipsis"

====
